---- MODULE Spec2Model ----
(***************************************************************************)
(* AMD CPPC cpufreq driver (amd_cppc.c): one driver instance (one softc)   *)
(* and the three CPPC model-specific registers of its core.                *)
(*                                                                         *)
(* 64-bit C values (uint64_t) are kept as four 16-bit limbs, least         *)
(* significant first, so that the shifts, the multiplication modulo 2^64   *)
(* and the truncation to int are computed as the C code computes them.     *)
(***************************************************************************)
EXTENDS Integers, Sequences, FiniteSets, TLC

VARIABLES sc, msr_enable, msr_req, phase, suspended, last, pre_req, thr

vars == <<sc, msr_enable, msr_req, phase, suspended, last, pre_req, thr>>

(***************************************************************************)
(* uint64_t arithmetic on limbs                                            *)
(***************************************************************************)
Limb == 256 * 256

\* (uint64_t) i for a C int i: sign extension to 64 bits
U64(i) ==
    << i % Limb, (i \div Limb) % Limb,
       IF i < 0 THEN Limb - 1 ELSE 0, IF i < 0 THEN Limb - 1 ELSE 0 >>

\* u * n modulo 2^64, for 0 <= n < 2^15
U64Mul(u, n) ==
    LET p1 == u[1] * n
        p2 == u[2] * n + (p1 \div Limb)
        p3 == u[3] * n + (p2 \div Limb)
        p4 == u[4] * n + (p3 \div Limb)
    IN  << p1 % Limb, p2 % Limb, p3 % Limb, p4 % Limb >>

\* u / d (unsigned, truncating), for 0 < d < 2^15
U64Div(u, d) ==
    LET q4 == u[4] \div d
        r4 == u[4] % d
        q3 == (r4 * Limb + u[3]) \div d
        r3 == (r4 * Limb + u[3]) % d
        q2 == (r3 * Limb + u[2]) \div d
        r2 == (r3 * Limb + u[2]) % d
        q1 == (r2 * Limb + u[1]) \div d
    IN  << q1, q2, q3, q4 >>

\* (int) u: the low 32 bits, read as two's complement
U64ToInt(u) ==
    u[1] + Limb * (IF u[2] >= Limb \div 2 THEN u[2] - Limb ELSE u[2])

\* (uint8_t) u: the low 8 bits
U64ToU8(u) == u[1] % 256

\* u << k modulo 2^64
RECURSIVE U64Shl(_, _)
U64Shl(u, k) ==
    IF k = 0 THEN u
    ELSE IF k >= 8 THEN U64Shl(U64Mul(u, 256), k - 8)
    ELSE U64Shl(U64Mul(u, 2), k - 1)

\* u >> k
RECURSIVE U64Shr(_, _)
U64Shr(u, k) ==
    IF k = 0 THEN u
    ELSE IF k >= 8 THEN U64Shr(U64Div(u, 256), k - 8)
    ELSE U64Shr(U64Div(u, 2), k - 1)

\* a | b on two 16-bit limbs
RECURSIVE BitOr(_, _, _)
BitOr(a, b, bits) ==
    IF bits = 0 THEN 0
    ELSE IF a = 0 THEN b
    ELSE IF b = 0 THEN a
    ELSE (IF a % 2 = 1 \/ b % 2 = 1 THEN 1 ELSE 0)
         + 2 * BitOr(a \div 2, b \div 2, bits - 1)

\* a | b on uint64_t
U64Or(a, b) == [i \in 1..4 |-> BitOr(a[i], b[i], 16)]

U64Zero == <<0, 0, 0, 0>>

(***************************************************************************)
(* Register names, register fields, error codes                            *)
(***************************************************************************)
MSR_AMD_CPPC_CAP1 == "CPPC_CAP1"
MSR_AMD_CPPC_ENABLE == "CPPC_ENABLE"
MSR_AMD_CPPC_REQ == "CPPC_REQ"

AMD_CPPC_LOWEST_PERF(x) == U64ToU8(U64Shr(x, 0))
AMD_CPPC_LOWNONLIN_PERF(x) == U64ToU8(U64Shr(x, 8))
AMD_CPPC_NOMINAL_PERF(x) == U64ToU8(U64Shr(x, 16))
AMD_CPPC_HIGHEST_PERF(x) == U64ToU8(U64Shr(x, 24))

AMD_CPPC_MAX_PERF_SHIFT == 0
AMD_CPPC_MIN_PERF_SHIFT == 8
AMD_CPPC_DES_PERF_SHIFT == 16
AMD_CPPC_EPP_PERF_SHIFT == 24

\* variant: max and min shifted to each other's field
AMD_CPPC_REQ_BUILD_swapped(max, min, des, epp) ==
    U64Or(U64Or(U64Or(U64Shl(U64(epp), AMD_CPPC_EPP_PERF_SHIFT),
                      U64Shl(U64(des), AMD_CPPC_DES_PERF_SHIFT)),
                U64Shl(U64(min), AMD_CPPC_MAX_PERF_SHIFT)),
          U64Shl(U64(max), AMD_CPPC_MIN_PERF_SHIFT))

AMD_CPPC_REQ_BUILD(max, min, des, epp) ==
    U64Or(U64Or(U64Or(U64Shl(U64(epp), AMD_CPPC_EPP_PERF_SHIFT),
                      U64Shl(U64(des), AMD_CPPC_DES_PERF_SHIFT)),
                U64Shl(U64(min), AMD_CPPC_MIN_PERF_SHIFT)),
          U64Shl(U64(max), AMD_CPPC_MAX_PERF_SHIFT))

\* val & AMD_CPPC_ENABLE_BIT, val | AMD_CPPC_ENABLE_BIT, val & ~AMD_CPPC_ENABLE_BIT
EnableBitOf(val) == val[1] % 2
SetEnableBit(val) == [val EXCEPT ![1] = BitOr(@, 1, 16)]
ClearEnableBit(val) == [val EXCEPT ![1] = @ - (@ % 2)]

AMD_CPPC_MAX_SETTINGS == 64

OK == "0"
ENXIO == "ENXIO"
EINVAL == "EINVAL"
EFAULT == "EFAULT"
CPUFREQ_VAL_UNKNOWN == 0 - 1

(***************************************************************************)
(* The machine an operation runs on: m.sc is the softc, m.en and m.req the *)
(* core's CPPC_ENABLE and CPPC_REQ registers, m.cap1 the value the         *)
(* read-only CPPC_CAP1 register holds, m.latch whether the hardware        *)
(* accepts a write that sets the enable bit, m.ev the thread's bind,       *)
(* rdmsr, wrmsr and unbind events in program order.                        *)
(***************************************************************************)
amd_cppc_bind_cpu(m, cpu_id) == [m EXCEPT !.ev = Append(@, <<"bind", cpu_id>>)]

amd_cppc_unbind_cpu(m) == [m EXCEPT !.ev = Append(@, <<"unbind">>)]

\* the rdmsr instruction, on the core the thread runs on
MsrValue(m, msr) ==
    CASE msr = MSR_AMD_CPPC_CAP1 -> m.cap1
      [] msr = MSR_AMD_CPPC_ENABLE -> m.en
      [] msr = MSR_AMD_CPPC_REQ -> m.req

\* the wrmsr instruction: a write setting the enable bit takes only if the
\* hardware latches it
MsrStore(m, msr, val) ==
    CASE msr = MSR_AMD_CPPC_ENABLE ->
           [m EXCEPT !.en = IF EnableBitOf(val) = 1 /\ ~m.latch
                            THEN ClearEnableBit(val) ELSE val]
      [] msr = MSR_AMD_CPPC_REQ -> [m EXCEPT !.req = val]
      [] OTHER -> m

amd_cppc_rdmsr(m, msr) ==
    LET b == amd_cppc_bind_cpu(m, m.sc.cpu_id)
        r == [b EXCEPT !.ev = Append(@, <<"rdmsr", msr>>)]
    IN  [m |-> amd_cppc_unbind_cpu(r), val |-> MsrValue(b, msr)]

\* variant: the write is issued without binding to the core first
amd_cppc_wrmsr_unbound(m, msr, val) ==
    LET w == [MsrStore(m, msr, val) EXCEPT !.ev = Append(@, <<"wrmsr", msr, val>>)]
    IN  amd_cppc_unbind_cpu(w)

amd_cppc_wrmsr(m, msr, val) ==
    LET b == amd_cppc_bind_cpu(m, m.sc.cpu_id)
        w == [MsrStore(b, msr, val) EXCEPT !.ev = Append(@, <<"wrmsr", msr, val>>)]
    IN  amd_cppc_unbind_cpu(w)

(***************************************************************************)
(* Unit conversions                                                        *)
(***************************************************************************)
\* base_freq_mhz is never negative here and perf is at most 255, so the
\* 64-bit product does not wrap and the quotient fits an int: the casts
\* change nothing and the C expression is the truncating quotient
amd_cppc_perf_to_mhz(s, perf) ==
    IF s.nominal_perf = 0 THEN 0
    ELSE (s.base_freq_mhz * perf) \div s.nominal_perf

amd_cppc_mhz_to_perf(s, mhz) ==
    IF s.base_freq_mhz = 0 THEN s.nominal_perf
    ELSE LET perf == U64ToInt(U64Div(U64Mul(U64(mhz), s.nominal_perf),
                                     s.base_freq_mhz))
             p1 == IF perf < s.lowest_perf THEN s.lowest_perf ELSE perf
             p2 == IF p1 > s.highest_perf THEN s.highest_perf ELSE p1
         IN  p2 % 256

\* variant: the upper clamp is at the hardware scale's 255
amd_cppc_epp_to_hw_clamp255(epp) ==
    LET e1 == IF epp < 0 THEN 0 ELSE epp
        e2 == IF e1 > 255 THEN 255 ELSE e1
    IN  ((e2 * 255) \div 100) % 256

amd_cppc_epp_to_hw(epp) ==
    LET e1 == IF epp < 0 THEN 0 ELSE epp
        e2 == IF e1 > 100 THEN 100 ELSE e1
    IN  ((e2 * 255) \div 100) % 256

(***************************************************************************)
(* Request register, enable, disable, capabilities                         *)
(***************************************************************************)
amd_cppc_write_req(m) ==
    amd_cppc_wrmsr(m, MSR_AMD_CPPC_REQ,
                   AMD_CPPC_REQ_BUILD(m.sc.req_max_perf, m.sc.req_min_perf,
                                      m.sc.req_des_perf, m.sc.req_epp))

\* variant: the enable bit is written but not read back
amd_cppc_enable_unverified(m) ==
    LET r1 == amd_cppc_rdmsr(m, MSR_AMD_CPPC_ENABLE)
        m2 == amd_cppc_wrmsr(r1.m, MSR_AMD_CPPC_ENABLE, SetEnableBit(r1.val))
    IN  IF EnableBitOf(r1.val) = 0
        THEN [m |-> [m2 EXCEPT !.sc.cppc_enabled = TRUE], ret |-> OK]
        ELSE [m |-> [r1.m EXCEPT !.sc.cppc_enabled = TRUE], ret |-> OK]

amd_cppc_enable(m) ==
    LET r1 == amd_cppc_rdmsr(m, MSR_AMD_CPPC_ENABLE)
        m2 == amd_cppc_wrmsr(r1.m, MSR_AMD_CPPC_ENABLE, SetEnableBit(r1.val))
        r3 == amd_cppc_rdmsr(m2, MSR_AMD_CPPC_ENABLE)
    IN  IF EnableBitOf(r1.val) = 0
        THEN IF EnableBitOf(r3.val) = 0
             THEN [m |-> r3.m, ret |-> ENXIO]
             ELSE [m |-> [r3.m EXCEPT !.sc.cppc_enabled = TRUE], ret |-> OK]
        ELSE [m |-> [r1.m EXCEPT !.sc.cppc_enabled = TRUE], ret |-> OK]

\* variant: disable also zeroes the stored request
amd_cppc_disable_zeroing(m) ==
    IF ~m.sc.cppc_enabled THEN m
    ELSE LET m1 == amd_cppc_wrmsr(m, MSR_AMD_CPPC_REQ, U64(0))
             r2 == amd_cppc_rdmsr(m1, MSR_AMD_CPPC_ENABLE)
             m3 == amd_cppc_wrmsr(r2.m, MSR_AMD_CPPC_ENABLE, ClearEnableBit(r2.val))
         IN  [m3 EXCEPT !.sc.cppc_enabled = FALSE, !.sc.req_max_perf = 0,
                        !.sc.req_min_perf = 0, !.sc.req_des_perf = 0,
                        !.sc.req_epp = 0]

\* variant: the enable bit is cleared before the request register is zeroed
amd_cppc_disable_enable_first(m) ==
    IF ~m.sc.cppc_enabled THEN m
    ELSE LET r1 == amd_cppc_rdmsr(m, MSR_AMD_CPPC_ENABLE)
             m2 == amd_cppc_wrmsr(r1.m, MSR_AMD_CPPC_ENABLE, ClearEnableBit(r1.val))
             m3 == amd_cppc_wrmsr(m2, MSR_AMD_CPPC_REQ, U64(0))
         IN  [m3 EXCEPT !.sc.cppc_enabled = FALSE]

amd_cppc_disable(m) ==
    IF ~m.sc.cppc_enabled THEN m
    ELSE LET m1 == amd_cppc_wrmsr(m, MSR_AMD_CPPC_REQ, U64(0))
             r2 == amd_cppc_rdmsr(m1, MSR_AMD_CPPC_ENABLE)
             m3 == amd_cppc_wrmsr(r2.m, MSR_AMD_CPPC_ENABLE, ClearEnableBit(r2.val))
         IN  [m3 EXCEPT !.sc.cppc_enabled = FALSE]

\* the validation of the extracted capability fields
CapsError(s) ==
    IF s.highest_perf = 0 \/ s.nominal_perf = 0 \/ s.lowest_perf = 0
    THEN ENXIO
    ELSE IF s.lowest_perf > s.nominal_perf \/ s.nominal_perf > s.highest_perf
    THEN ENXIO
    ELSE OK

amd_cppc_read_caps(m) ==
    LET r == amd_cppc_rdmsr(m, MSR_AMD_CPPC_CAP1)
        s == [r.m.sc EXCEPT !.highest_perf = AMD_CPPC_HIGHEST_PERF(r.val),
                            !.nominal_perf = AMD_CPPC_NOMINAL_PERF(r.val),
                            !.lowest_nonlinear_perf = AMD_CPPC_LOWNONLIN_PERF(r.val),
                            !.lowest_perf = AMD_CPPC_LOWEST_PERF(r.val)]
    IN  [m |-> [r.m EXCEPT !.sc = s], ret |-> CapsError(s)]

(***************************************************************************)
(* Device methods, as functions of the machine                             *)
(***************************************************************************)
\* tsc_mhz is tsc_freq / 1000000, unit the parent cpu device's unit number
amd_cppc_attach(m, unit, tsc_mhz) ==
    LET m0 == [m EXCEPT !.sc.cpu_id = unit, !.sc.base_freq_mhz = tsc_mhz]
        rc == amd_cppc_read_caps(m0)
        m1 == [rc.m EXCEPT !.sc.epp = 50,
                           !.sc.req_epp = amd_cppc_epp_to_hw(50),
                           !.sc.req_max_perf = rc.m.sc.highest_perf,
                           !.sc.req_min_perf = rc.m.sc.lowest_perf,
                           !.sc.req_des_perf = 0]
        re == amd_cppc_enable(m1)
    IN  IF tsc_mhz = 0 THEN [m |-> m0, ret |-> ENXIO]
        ELSE IF rc.ret # OK THEN rc
        ELSE IF re.ret # OK THEN re
        ELSE [m |-> amd_cppc_write_req(re.m), ret |-> OK]

amd_cppc_detach(m) == [m |-> amd_cppc_disable(m), ret |-> OK]

amd_cppc_suspend(m) == [m |-> amd_cppc_disable(m), ret |-> OK]

\* variant: the result of amd_cppc_read_caps is not looked at
amd_cppc_resume_ignore_caps(m) ==
    LET rc == amd_cppc_read_caps(m)
        re == amd_cppc_enable(rc.m)
    IN  IF re.ret # OK THEN re
        ELSE [m |-> amd_cppc_write_req(re.m), ret |-> OK]

amd_cppc_resume(m) ==
    LET rc == amd_cppc_read_caps(m)
        re == amd_cppc_enable(rc.m)
    IN  IF rc.ret # OK THEN rc
        ELSE IF re.ret # OK THEN re
        ELSE [m |-> amd_cppc_write_req(re.m), ret |-> OK]

\* variant: the new preference is stored but the request is not written
amd_cppc_sysctl_epp_no_write(m, error, newptr, epp) ==
    LET m1 == [m EXCEPT !.sc.epp = epp, !.sc.req_epp = amd_cppc_epp_to_hw(epp)]
    IN  IF error # OK \/ ~newptr THEN [m |-> m, ret |-> error]
        ELSE IF epp < 0 \/ epp > 100 THEN [m |-> m, ret |-> EINVAL]
        ELSE [m |-> m1, ret |-> OK]

\* variant: the preference is stored without converting it into req_epp
amd_cppc_sysctl_epp_keep_hw(m, error, newptr, epp) ==
    LET m1 == [m EXCEPT !.sc.epp = epp]
    IN  IF error # OK \/ ~newptr THEN [m |-> m, ret |-> error]
        ELSE IF epp < 0 \/ epp > 100 THEN [m |-> m, ret |-> EINVAL]
        ELSE [m |-> IF m1.sc.cppc_enabled THEN amd_cppc_write_req(m1) ELSE m1,
              ret |-> OK]

\* variant: the range check admits 101
amd_cppc_sysctl_epp_101(m, error, newptr, epp) ==
    LET m1 == [m EXCEPT !.sc.epp = epp, !.sc.req_epp = amd_cppc_epp_to_hw(epp)]
    IN  IF error # OK \/ ~newptr THEN [m |-> m, ret |-> error]
        ELSE IF epp < 0 \/ epp > 101 THEN [m |-> m, ret |-> EINVAL]
        ELSE [m |-> IF m1.sc.cppc_enabled THEN amd_cppc_write_req(m1) ELSE m1,
              ret |-> OK]

\* variant: the request is written whether or not CPPC is enabled
amd_cppc_sysctl_epp_always_write(m, error, newptr, epp) ==
    LET m1 == [m EXCEPT !.sc.epp = epp, !.sc.req_epp = amd_cppc_epp_to_hw(epp)]
    IN  IF error # OK \/ ~newptr THEN [m |-> m, ret |-> error]
        ELSE IF epp < 0 \/ epp > 100 THEN [m |-> m, ret |-> EINVAL]
        ELSE [m |-> amd_cppc_write_req(m1), ret |-> OK]

\* error is what sysctl_handle_int returns, newptr whether the request
\* carries a new value, epp the value it leaves in the local variable
amd_cppc_sysctl_epp(m, error, newptr, epp) ==
    LET m1 == [m EXCEPT !.sc.epp = epp, !.sc.req_epp = amd_cppc_epp_to_hw(epp)]
    IN  IF error # OK \/ ~newptr THEN [m |-> m, ret |-> error]
        ELSE IF epp < 0 \/ epp > 100 THEN [m |-> m, ret |-> EINVAL]
        ELSE [m |-> IF m1.sc.cppc_enabled THEN amd_cppc_write_req(m1) ELSE m1,
              ret |-> OK]

(***************************************************************************)
(* cpufreq driver methods                                                  *)
(***************************************************************************)
Setting(freq, lat) ==
    [freq |-> freq, volts |-> CPUFREQ_VAL_UNKNOWN, power |-> CPUFREQ_VAL_UNKNOWN,
     lat |-> lat]

\* the for loop of amd_cppc_settings: n is Len(sets)
RECURSIVE SettingsWalk(_, _, _, _, _)
SettingsWalk(s, perf, step, count, sets) ==
    IF perf > s.lowest_perf
       /\ ~(Len(sets) >= count \/ Len(sets) >= AMD_CPPC_MAX_SETTINGS)
    THEN SettingsWalk(s, perf - step, step, count,
                      Append(sets, Setting(amd_cppc_perf_to_mhz(s, perf % 256), 1)))
    ELSE sets

\* the block after the loop: the floor entry, if the budget allows
SettingsFloor(s, count, walked) ==
    IF Len(walked) < count /\ Len(walked) < AMD_CPPC_MAX_SETTINGS
    THEN Append(walked, Setting(amd_cppc_perf_to_mhz(s, s.lowest_perf), 1))
    ELSE walked

\* variant: the floor entry is appended without looking at the budget
amd_cppc_settings_always_floor(m, count) ==
    LET s == m.sc
        perf_range == s.highest_perf - s.lowest_perf
        step == IF perf_range \div 30 < 1 THEN 1 ELSE perf_range \div 30
        walked == SettingsWalk(s, s.highest_perf, step, count, <<>>)
        sets == Append(walked, Setting(amd_cppc_perf_to_mhz(s, s.lowest_perf), 1))
    IN  IF ~s.cppc_enabled THEN [m |-> m, ret |-> ENXIO, out |-> <<>>]
        ELSE IF perf_range <= 0 THEN [m |-> m, ret |-> OK, out |-> <<>>]
        ELSE [m |-> m, ret |-> OK, out |-> sets]

\* variant: the walk runs down to lowest_perf itself (perf >= lowest_perf)
amd_cppc_settings_inclusive(m, count) ==
    LET s == m.sc
        perf_range == s.highest_perf - s.lowest_perf
        step == IF perf_range \div 30 < 1 THEN 1 ELSE perf_range \div 30
        walked == SettingsWalk([s EXCEPT !.lowest_perf = @ - 1], s.highest_perf,
                               step, count, <<>>)
    IN  IF ~s.cppc_enabled THEN [m |-> m, ret |-> ENXIO, out |-> <<>>]
        ELSE IF perf_range <= 0 THEN [m |-> m, ret |-> OK, out |-> <<>>]
        ELSE [m |-> m, ret |-> OK, out |-> SettingsFloor(s, count, walked)]

\* sets is the caller's array on return (its first *count entries), <<>> when
\* *count is 0 or the array was not written
amd_cppc_settings(m, count) ==
    LET s == m.sc
        perf_range == s.highest_perf - s.lowest_perf
        step == IF perf_range \div 30 < 1 THEN 1 ELSE perf_range \div 30
    IN  IF ~s.cppc_enabled THEN [m |-> m, ret |-> ENXIO, out |-> <<>>]
        ELSE IF perf_range <= 0 THEN [m |-> m, ret |-> OK, out |-> <<>>]
        ELSE [m |-> m, ret |-> OK,
              out |-> SettingsFloor(s, count,
                                    SettingsWalk(s, s.highest_perf, step, count, <<>>))]

\* variant: no check of cppc_enabled
amd_cppc_set_unguarded(m, freq) ==
    LET target_perf == amd_cppc_mhz_to_perf(m.sc, freq)
        m1 == [m EXCEPT !.sc.req_max_perf = target_perf,
                        !.sc.req_min_perf = m.sc.lowest_perf,
                        !.sc.req_des_perf = 0]
    IN  [m |-> amd_cppc_write_req(m1), ret |-> OK]

\* variant: req_min_perf is left as it was
amd_cppc_set_keep_min(m, freq) ==
    LET target_perf == amd_cppc_mhz_to_perf(m.sc, freq)
        m1 == [m EXCEPT !.sc.req_max_perf = target_perf,
                        !.sc.req_des_perf = 0]
    IN  IF ~m.sc.cppc_enabled THEN [m |-> m, ret |-> ENXIO]
        ELSE [m |-> amd_cppc_write_req(m1), ret |-> OK]

amd_cppc_set(m, freq) ==
    LET target_perf == amd_cppc_mhz_to_perf(m.sc, freq)
        m1 == [m EXCEPT !.sc.req_max_perf = target_perf,
                        !.sc.req_min_perf = m.sc.lowest_perf,
                        !.sc.req_des_perf = 0]
    IN  IF ~m.sc.cppc_enabled THEN [m |-> m, ret |-> ENXIO]
        ELSE [m |-> amd_cppc_write_req(m1), ret |-> OK]

\* variant: reports req_min_perf
amd_cppc_get_min(m) ==
    IF ~m.sc.cppc_enabled THEN [m |-> m, ret |-> ENXIO, out |-> <<>>]
    ELSE [m |-> m, ret |-> OK,
          out |-> << [freq |-> amd_cppc_perf_to_mhz(m.sc, m.sc.req_min_perf),
                      volts |-> CPUFREQ_VAL_UNKNOWN,
                      power |-> CPUFREQ_VAL_UNKNOWN,
                      lat |-> CPUFREQ_VAL_UNKNOWN] >>]

amd_cppc_get(m) ==
    IF ~m.sc.cppc_enabled THEN [m |-> m, ret |-> ENXIO, out |-> <<>>]
    ELSE [m |-> m, ret |-> OK,
          out |-> << [freq |-> amd_cppc_perf_to_mhz(m.sc, m.sc.req_max_perf),
                      volts |-> CPUFREQ_VAL_UNKNOWN,
                      power |-> CPUFREQ_VAL_UNKNOWN,
                      lat |-> CPUFREQ_VAL_UNKNOWN] >>]

(***************************************************************************)
(* The environment's inputs                                                *)
(***************************************************************************)
MaxMhzK == 5
MaxCount == 65

\* the CPPC_CAP1 register holding the four capability fields
Cap1Word(highest, nominal, lowest_nl, lowest) ==
    << lowest + 256 * lowest_nl, nominal + 256 * highest, 0, 0 >>

\* the capability values firmware may present at attach and at resume: the
\* reference part, lower ceiling, higher floor, flat range, a nonlinear floor
\* below the floor, a zero in each checked field, floor above nominal,
\* nominal above ceiling
Cap1Inputs ==
    { Cap1Word(180, 100, 40, 20), Cap1Word(150, 100, 40, 20),
      Cap1Word(180, 100, 40, 40), Cap1Word(100, 100, 100, 100),
      Cap1Word(180, 100, 10, 20), Cap1Word(0, 100, 40, 20),
      Cap1Word(180, 0, 40, 20), Cap1Word(180, 100, 40, 0),
      Cap1Word(180, 100, 40, 120), Cap1Word(90, 100, 40, 20) }

CpuUnits == {1}
TscMhzInputs == {0, 2000}
MhzInputs == {CPUFREQ_VAL_UNKNOWN} \cup {1000 * k : k \in 0..MaxMhzK}
EppInputs == {0 - 1, 0, 50, 100, 101}
CountInputs == {0, 1, 30, MaxCount}

(***************************************************************************)
(* State machine: one serialized caller                                    *)
(***************************************************************************)
\* pre_req is history: the stored target (max, min, desired) an effective
\* disable found, until the next successful set_target replaces the target
NoRequest == [max |-> 0 - 1, min |-> 0 - 1, des |-> 0 - 1]

StoredRequest(s) ==
    [max |-> s.req_max_perf, min |-> s.req_min_perf, des |-> s.req_des_perf]

\* thr is the position and the locals of the thread inside amd_cppc_set and
\* of the thread inside amd_cppc_sysctl_epp when the two are not serialized;
\* a serialized caller leaves both idle
IdleThreads ==
    [set |-> [pc |-> "idle", freq |-> 0, target_perf |-> 0, val |-> U64Zero,
              ret |-> OK],
     epp |-> [pc |-> "idle", epp |-> 0, val |-> U64Zero, ret |-> OK]]

\* the softc as newbus allocates it: zeroed
ZeroSoftc ==
    [cpu_id |-> 0, highest_perf |-> 0, nominal_perf |-> 0,
     lowest_nonlinear_perf |-> 0, lowest_perf |-> 0,
     req_max_perf |-> 0, req_min_perf |-> 0, req_des_perf |-> 0, req_epp |-> 0,
     base_freq_mhz |-> 0, epp |-> 0, cppc_enabled |-> FALSE]

Machine(cap1, latch) ==
    [sc |-> sc, en |-> msr_enable, req |-> msr_req, cap1 |-> cap1,
     latch |-> latch, ev |-> <<>>]

\* the operation's effect on the softc and the registers, and what its caller
\* and the hardware saw of it
Commit(op, arg, m, ret, out) ==
    /\ sc' = m.sc
    /\ msr_enable' = m.en
    /\ msr_req' = m.req
    /\ last' = [op |-> op, arg |-> arg, ret |-> ret, ev |-> m.ev, out |-> out]
    /\ thr' = thr

Init ==
    /\ sc = ZeroSoftc
    /\ msr_enable \in {U64(0), U64(1)}
    /\ msr_req = U64(0)
    /\ phase = "init"
    /\ suspended = FALSE
    /\ last = [op |-> "none", arg |-> 0, ret |-> OK, ev |-> <<>>, out |-> <<>>]
    /\ pre_req = NoRequest
    /\ thr = IdleThreads

Attach(unit, tsc_mhz, cap1, latch) ==
    /\ phase = "init"
    /\ \E r \in {amd_cppc_attach(Machine(cap1, latch), unit, tsc_mhz)} :
        /\ Commit("attach", tsc_mhz, r.m, r.ret, <<>>)
        /\ phase' = IF r.ret = OK THEN "attached" ELSE "failed"
    /\ UNCHANGED <<suspended, pre_req>>

Detach ==
    /\ phase = "attached"
    /\ \E r \in {amd_cppc_detach(Machine(U64Zero, FALSE))} :
        Commit("detach", 0, r.m, r.ret, <<>>)
    /\ phase' = "detached"
    /\ pre_req' = IF sc.cppc_enabled THEN StoredRequest(sc) ELSE pre_req
    /\ UNCHANGED suspended

Suspend ==
    /\ phase = "attached"
    /\ ~suspended
    /\ \E r \in {amd_cppc_suspend(Machine(U64Zero, FALSE))} :
        Commit("suspend", 0, r.m, r.ret, <<>>)
    /\ suspended' = TRUE
    /\ pre_req' = IF sc.cppc_enabled THEN StoredRequest(sc) ELSE pre_req
    /\ UNCHANGED phase

Resume(cap1, latch) ==
    /\ phase = "attached"
    /\ suspended
    /\ \E r \in {amd_cppc_resume(Machine(cap1, latch))} :
        Commit("resume", 0, r.m, r.ret, <<>>)
    /\ suspended' = FALSE
    /\ UNCHANGED <<phase, pre_req>>

SetTarget(mhz) ==
    /\ phase = "attached"
    /\ \E r \in {amd_cppc_set(Machine(U64Zero, FALSE), mhz)} :
        /\ Commit("set", mhz, r.m, r.ret, <<>>)
        /\ pre_req' = IF r.ret = OK THEN NoRequest ELSE pre_req
    /\ UNCHANGED <<phase, suspended>>

GetCurrent ==
    /\ phase = "attached"
    /\ \E r \in {amd_cppc_get(Machine(U64Zero, FALSE))} :
        Commit("get", 0, r.m, r.ret, r.out)
    /\ UNCHANGED <<phase, suspended, pre_req>>

SetPreference(error, newptr, epp) ==
    /\ phase = "attached"
    /\ \E r \in {amd_cppc_sysctl_epp(Machine(U64Zero, FALSE), error, newptr, epp)} :
        Commit(IF newptr THEN "set_epp" ELSE "get_epp", epp, r.m, r.ret, <<>>)
    /\ UNCHANGED <<phase, suspended, pre_req>>

Settings(count) ==
    /\ phase = "attached"
    /\ \E r \in {amd_cppc_settings(Machine(U64Zero, FALSE), count)} :
        Commit("settings", count, r.m, r.ret, r.out)
    /\ UNCHANGED <<phase, suspended, pre_req>>

Next ==
    \/ \E unit \in CpuUnits, tsc_mhz \in TscMhzInputs, cap1 \in Cap1Inputs,
          latch \in BOOLEAN : Attach(unit, tsc_mhz, cap1, latch)
    \/ Detach
    \/ Suspend
    \/ \E cap1 \in Cap1Inputs, latch \in BOOLEAN : Resume(cap1, latch)
    \/ \E mhz \in MhzInputs : SetTarget(mhz)
    \/ GetCurrent
    \/ \E epp \in EppInputs : SetPreference(OK, TRUE, epp)
    \/ SetPreference(OK, FALSE, sc.epp)
    \/ SetPreference(EFAULT, TRUE, sc.epp)
    \/ \E count \in CountInputs : Settings(count)

Spec == Init /\ [][Next]_vars

(***************************************************************************)
(* Target round trips: an attached, enabled instance serving set_target    *)
(* and get_current over a dense range of frequencies                       *)
(***************************************************************************)
MinTargetMhz == 200
MaxTargetMhz == 450

TargetCap1Inputs == { Cap1Word(180, 100, 40, 20), Cap1Word(180, 180, 40, 20) }
TargetTscInputs == {2000, 2100}
TargetMhzInputs == MhzInputs \cup (MinTargetMhz..MaxTargetMhz)

\* the state a successful attach leaves
AfterAttach(unit, tsc_mhz, cap1) ==
    LET r == amd_cppc_attach([sc |-> ZeroSoftc, en |-> U64(0), req |-> U64(0),
                              cap1 |-> cap1, latch |-> TRUE, ev |-> <<>>],
                             unit, tsc_mhz)
    IN  /\ r.ret = OK
        /\ sc = r.m.sc
        /\ msr_enable = r.m.en
        /\ msr_req = r.m.req
        /\ phase = "attached"
        /\ suspended = FALSE
        /\ last = [op |-> "attach", arg |-> tsc_mhz, ret |-> OK, ev |-> r.m.ev,
                   out |-> <<>>]
        /\ pre_req = NoRequest
        /\ thr = IdleThreads

InitTarget ==
    \E unit \in CpuUnits, tsc_mhz \in TargetTscInputs, cap1 \in TargetCap1Inputs :
        AfterAttach(unit, tsc_mhz, cap1)

NextTarget ==
    \/ \E mhz \in TargetMhzInputs : SetTarget(mhz)
    \/ GetCurrent

SpecTarget == InitTarget /\ [][NextTarget]_vars

(***************************************************************************)
(* Settings enumeration: an attached, enabled instance over a range of     *)
(* validated capability sets, serving amd_cppc_settings for every budget   *)
(***************************************************************************)
EnumPerfValues == {1, 20, 21, 80, 180, 255}
EnumTscInputs == {2000}

EnumCap1Inputs ==
    { Cap1Word(c[1], c[2], c[3], c[3]) :
        c \in { t \in EnumPerfValues \X EnumPerfValues \X EnumPerfValues :
                  t[3] <= t[2] /\ t[2] <= t[1] } }

InitEnum ==
    \E unit \in CpuUnits, tsc_mhz \in EnumTscInputs, cap1 \in EnumCap1Inputs :
        AfterAttach(unit, tsc_mhz, cap1)

NextEnum == \E count \in 0..MaxCount : Settings(count)

SpecEnum == InitEnum /\ [][NextEnum]_vars

(***************************************************************************)
(* Settings enumeration over base frequencies below, at and above the      *)
(* nominal performance level                                               *)
(***************************************************************************)
EnumBaseTscInputs == {1, 50, 99, 100, 101, 2000}

EnumBaseCap1Inputs ==
    { Cap1Word(100, 100, 80, 80), Cap1Word(180, 100, 40, 20),
      Cap1Word(255, 255, 1, 1), Cap1Word(255, 100, 20, 20),
      Cap1Word(21, 20, 20, 20), Cap1Word(100, 100, 100, 100) }

InitEnumBase ==
    \E unit \in CpuUnits, tsc_mhz \in EnumBaseTscInputs,
       cap1 \in EnumBaseCap1Inputs : AfterAttach(unit, tsc_mhz, cap1)

SpecEnumBase == InitEnumBase /\ [][NextEnum]_vars

(***************************************************************************)
(* Frequency conversion: an attached, enabled instance serving set_target  *)
(* for frequencies over the whole range of a C int                         *)
(***************************************************************************)
ConvWindow == 8
ConvMaxK == 20

\* INT_MAX and INT_MIN of the int the frequency is passed in
IntMax == 2147483647
IntMin == (0 - IntMax) - 1

ConvTscInputs == {2000, 2100, 3600}
ConvCap1Inputs == { Cap1Word(180, 100, 40, 20), Cap1Word(255, 255, 1, 1) }

ConvMhzInputs ==
    {IntMin, IntMin + 1, 0 - 1000000, 0 - 3600, 1000000, 1000000000, IntMax - 1,
     IntMax}
    \cup ((0 - ConvWindow)..ConvWindow)
    \cup {400 * k : k \in 0..ConvMaxK}

InitConv ==
    \E unit \in CpuUnits, tsc_mhz \in ConvTscInputs, cap1 \in ConvCap1Inputs :
        AfterAttach(unit, tsc_mhz, cap1)

NextConv == \E mhz \in ConvMhzInputs : SetTarget(mhz)

SpecConv == InitConv /\ [][NextConv]_vars

(***************************************************************************)
(* Preference conversion: amd_cppc_epp_to_hw applied to any int            *)
(***************************************************************************)
EppWindow == 110

EppConvInputs == {IntMin, IntMax} \cup ((0 - EppWindow)..EppWindow)

InitEpp ==
    /\ sc = ZeroSoftc
    /\ msr_enable = U64(0)
    /\ msr_req = U64(0)
    /\ phase = "init"
    /\ suspended = FALSE
    /\ last = [op |-> "none", arg |-> 0, ret |-> OK, ev |-> <<>>, out |-> <<>>]
    /\ pre_req = NoRequest
    /\ thr = IdleThreads

EppToHw(epp) ==
    /\ last' = [op |-> "epp_to_hw", arg |-> epp, ret |-> OK, ev |-> <<>>,
                out |-> << amd_cppc_epp_to_hw(epp) >>]
    /\ UNCHANGED <<sc, msr_enable, msr_req, phase, suspended, pre_req, thr>>

NextEpp == \E epp \in EppConvInputs : EppToHw(epp)

SpecEpp == InitEpp /\ [][NextEpp]_vars

(***************************************************************************)
(* amd_cppc_set and amd_cppc_sysctl_epp without serialization: the sysctl  *)
(* is registered CTLFLAG_MPSAFE and neither function takes a lock, so one  *)
(* thread in each runs on the same enabled instance, a step being one      *)
(* store to a softc field, the build of the register value, or the         *)
(* register write                                                          *)
(***************************************************************************)
RaceTscInputs == {2000}
RaceCap1Inputs == { Cap1Word(180, 100, 40, 20), Cap1Word(255, 255, 1, 1) }
RaceMhzInputs == {1000, 3000}
RaceEppInputs == {0, 100, 101}

InitRace ==
    \E unit \in CpuUnits, tsc_mhz \in RaceTscInputs, cap1 \in RaceCap1Inputs :
        AfterAttach(unit, tsc_mhz, cap1)

\* if (!sc->cppc_enabled) return (ENXIO);
SetEnter(freq) ==
    /\ thr.set.pc = "idle"
    /\ thr' = [thr EXCEPT !.set.freq = freq,
                          !.set.pc = IF sc.cppc_enabled THEN "convert" ELSE "done",
                          !.set.ret = IF sc.cppc_enabled THEN OK ELSE ENXIO]
    /\ UNCHANGED <<sc, msr_enable, msr_req, phase, suspended, last, pre_req>>

\* target_perf = amd_cppc_mhz_to_perf(sc, cf->freq);
SetConvert ==
    /\ thr.set.pc = "convert"
    /\ thr' = [thr EXCEPT !.set.target_perf = amd_cppc_mhz_to_perf(sc, thr.set.freq),
                          !.set.pc = "store_max"]
    /\ UNCHANGED <<sc, msr_enable, msr_req, phase, suspended, last, pre_req>>

\* sc->req_max_perf = target_perf;
SetStoreMax ==
    /\ thr.set.pc = "store_max"
    /\ sc' = [sc EXCEPT !.req_max_perf = thr.set.target_perf]
    /\ thr' = [thr EXCEPT !.set.pc = "store_min"]
    /\ UNCHANGED <<msr_enable, msr_req, phase, suspended, last, pre_req>>

\* sc->req_min_perf = sc->lowest_perf;
SetStoreMin ==
    /\ thr.set.pc = "store_min"
    /\ sc' = [sc EXCEPT !.req_min_perf = sc.lowest_perf]
    /\ thr' = [thr EXCEPT !.set.pc = "store_des"]
    /\ UNCHANGED <<msr_enable, msr_req, phase, suspended, last, pre_req>>

\* sc->req_des_perf = 0;
SetStoreDes ==
    /\ thr.set.pc = "store_des"
    /\ sc' = [sc EXCEPT !.req_des_perf = 0]
    /\ thr' = [thr EXCEPT !.set.pc = "build"]
    /\ UNCHANGED <<msr_enable, msr_req, phase, suspended, last, pre_req>>

\* amd_cppc_write_req: val = AMD_CPPC_REQ_BUILD(...);
SetBuild ==
    /\ thr.set.pc = "build"
    /\ thr' = [thr EXCEPT !.set.val = AMD_CPPC_REQ_BUILD(sc.req_max_perf,
                                                       sc.req_min_perf,
                                                       sc.req_des_perf, sc.req_epp),
                          !.set.pc = "wrmsr"]
    /\ UNCHANGED <<sc, msr_enable, msr_req, phase, suspended, last, pre_req>>

\* amd_cppc_write_req: amd_cppc_wrmsr(sc, MSR_AMD_CPPC_REQ, val); return (0);
SetWrite ==
    /\ thr.set.pc = "wrmsr"
    /\ msr_req' = amd_cppc_wrmsr(Machine(U64Zero, FALSE), MSR_AMD_CPPC_REQ,
                                 thr.set.val).req
    /\ thr' = [thr EXCEPT !.set.pc = "done"]
    /\ UNCHANGED <<sc, msr_enable, phase, suspended, last, pre_req>>

\* sysctl_handle_int left a new value in epp; if (epp < 0 || epp > 100)
\* return (EINVAL);
EppEnter(epp) ==
    /\ thr.epp.pc = "idle"
    /\ thr' = [thr EXCEPT !.epp.epp = epp,
                          !.epp.pc = IF epp < 0 \/ epp > 100 THEN "done"
                                     ELSE "store_epp",
                          !.epp.ret = IF epp < 0 \/ epp > 100 THEN EINVAL ELSE OK]
    /\ UNCHANGED <<sc, msr_enable, msr_req, phase, suspended, last, pre_req>>

\* sc->epp = epp;
EppStore ==
    /\ thr.epp.pc = "store_epp"
    /\ sc' = [sc EXCEPT !.epp = thr.epp.epp]
    /\ thr' = [thr EXCEPT !.epp.pc = "store_hw"]
    /\ UNCHANGED <<msr_enable, msr_req, phase, suspended, last, pre_req>>

\* sc->req_epp = amd_cppc_epp_to_hw(epp);
EppStoreHw ==
    /\ thr.epp.pc = "store_hw"
    /\ sc' = [sc EXCEPT !.req_epp = amd_cppc_epp_to_hw(thr.epp.epp)]
    /\ thr' = [thr EXCEPT !.epp.pc = "check"]
    /\ UNCHANGED <<msr_enable, msr_req, phase, suspended, last, pre_req>>

\* if (sc->cppc_enabled) amd_cppc_write_req(sc);
EppCheckEnabled ==
    /\ thr.epp.pc = "check"
    /\ thr' = [thr EXCEPT !.epp.pc = IF sc.cppc_enabled THEN "build" ELSE "done"]
    /\ UNCHANGED <<sc, msr_enable, msr_req, phase, suspended, last, pre_req>>

\* amd_cppc_write_req: val = AMD_CPPC_REQ_BUILD(...);
EppBuild ==
    /\ thr.epp.pc = "build"
    /\ thr' = [thr EXCEPT !.epp.val = AMD_CPPC_REQ_BUILD(sc.req_max_perf,
                                                       sc.req_min_perf,
                                                       sc.req_des_perf, sc.req_epp),
                          !.epp.pc = "wrmsr"]
    /\ UNCHANGED <<sc, msr_enable, msr_req, phase, suspended, last, pre_req>>

\* amd_cppc_write_req: amd_cppc_wrmsr(sc, MSR_AMD_CPPC_REQ, val); return (0);
EppWrite ==
    /\ thr.epp.pc = "wrmsr"
    /\ msr_req' = amd_cppc_wrmsr(Machine(U64Zero, FALSE), MSR_AMD_CPPC_REQ,
                                 thr.epp.val).req
    /\ thr' = [thr EXCEPT !.epp.pc = "done"]
    /\ UNCHANGED <<sc, msr_enable, phase, suspended, last, pre_req>>

NextRace ==
    \/ \E freq \in RaceMhzInputs : SetEnter(freq)
    \/ SetConvert
    \/ SetStoreMax
    \/ SetStoreMin
    \/ SetStoreDes
    \/ SetBuild
    \/ SetWrite
    \/ \E epp \in RaceEppInputs : EppEnter(epp)
    \/ EppStore
    \/ EppStoreHw
    \/ EppCheckEnabled
    \/ EppBuild
    \/ EppWrite

SpecRace == InitRace /\ [][NextRace]_vars

(***************************************************************************)
(* What an operation did to the hardware, read off its event log           *)
(***************************************************************************)
Writes(ev) == SelectSeq(ev, LAMBDA e : e[1] = "wrmsr")

ReqWrites(ev) ==
    SelectSeq(ev, LAMBDA e : e[1] = "wrmsr" /\ e[2] = MSR_AMD_CPPC_REQ)

\* the register reads and writes of an operation, in program order
Accesses(ev) == SelectSeq(ev, LAMBDA e : e[1] \in {"rdmsr", "wrmsr"})

\* max in bits 0-7, min in bits 8-15, desired in bits 16-23, epp in bits
\* 24-31 of a 64-bit value, as limbs
Packed(max, min, des, epp) == << max + 256 * min, des + 256 * epp, 0, 0 >>

PackedRequest(s) ==
    Packed(s.req_max_perf, s.req_min_perf, s.req_des_perf, s.req_epp)

(***************************************************************************)
(* Claims                                                                  *)
(***************************************************************************)
Attached == phase = "attached"

\* C1: whenever the instance is enabled, the stored request satisfies
\* req_min_perf <= req_max_perf and both lie within [lowest_perf,
\* highest_perf] of the stored capability set.
C1_RequestWithinCaps ==
    sc.cppc_enabled =>
        /\ sc.req_min_perf <= sc.req_max_perf
        /\ sc.lowest_perf <= sc.req_min_perf
        /\ sc.req_min_perf <= sc.highest_perf
        /\ sc.lowest_perf <= sc.req_max_perf
        /\ sc.req_max_perf <= sc.highest_perf

\* C2 as stated: after a disable (suspend or detach) the stored request is
\* zeroed and the enabled flag is cleared.
C2_DisableZeroesStoredRequest ==
    last.op \in {"suspend", "detach"} =>
        /\ ~sc.cppc_enabled
        /\ sc.req_max_perf = 0
        /\ sc.req_min_perf = 0
        /\ sc.req_des_perf = 0
        /\ sc.req_epp = 0

\* C2 as amended: a disable zeroes the request register and clears the
\* enabled flag but keeps the stored request (the EPP field stays the
\* conversion of the stored preference); once the instance is enabled again
\* and no set_target has been issued since, the stored target is the
\* pre-disable one, the request register holds its packing, and get_current
\* reports the pre-disable req_max_perf in MHz.
C2_DisableKeepsStoredRequest ==
    /\ last.op \in {"suspend", "detach"} =>
          /\ ~sc.cppc_enabled
          /\ msr_req = U64Zero
          /\ StoredRequest(sc) = pre_req
          /\ sc.req_epp = (sc.epp * 255) \div 100
    /\ (sc.cppc_enabled /\ pre_req # NoRequest) =>
          /\ StoredRequest(sc) = pre_req
          /\ msr_req = Packed(pre_req.max, pre_req.min, pre_req.des, sc.req_epp)
          /\ (last.op = "get" =>
                /\ last.ret = OK
                /\ last.out[1].freq
                     = (sc.base_freq_mhz * pre_req.max) \div sc.nominal_perf)

\* C2 witness: get_current after set_target, suspend and resume, reporting a
\* target that is not the attach default
C2_Witness ==
    /\ sc.cppc_enabled
    /\ pre_req # NoRequest
    /\ pre_req.max # sc.highest_perf
    /\ pre_req.max # 0
    /\ last.op = "get"
    /\ last.ret = OK
    /\ last.out[1].freq > 0

NoWrites(ev) == Writes(ev) = <<>>

\* C3: while the instance is disabled, get_current and set_target return
\* ENXIO (NotEnabled), change no field of the softc and write no register.
C3_DisabledCallsRejected ==
    [][ (Attached /\ ~sc.cppc_enabled /\ last'.op \in {"get", "set"}) =>
            /\ last'.ret = ENXIO
            /\ sc' = sc
            /\ msr_req' = msr_req
            /\ msr_enable' = msr_enable
            /\ NoWrites(last'.ev)
            /\ last'.out = <<>> ]_vars

\* C3 witness: a set_target rejected after a suspend disabled the instance
C3_Witness ==
    /\ Attached
    /\ ~sc.cppc_enabled
    /\ pre_req # NoRequest
    /\ last.op = "set"
    /\ last.ret = ENXIO

\* C4: read_capabilities either fails or the extracted set satisfies
\* lowest_perf <= lowest_nonlinear_perf <= nominal_perf <= highest_perf.
C4_CapsFullyOrdered ==
    (last.op \in {"attach", "resume"} /\ last.ret = OK) =>
        /\ sc.lowest_perf <= sc.lowest_nonlinear_perf
        /\ sc.lowest_nonlinear_perf <= sc.nominal_perf
        /\ sc.nominal_perf <= sc.highest_perf

\* C5: on an enabled instance set_target(mhz) stores mhz_to_perf(mhz) as
\* req_max_perf, lowest_perf as req_min_perf and 0 as req_des_perf, leaves
\* req_epp and the preference alone, and makes exactly one register write:
\* the packing of the updated fields, to the request register.
C5_SetTargetEffect ==
    [][ (Attached /\ sc.cppc_enabled /\ last'.op = "set") =>
            /\ last'.ret = OK
            /\ sc'.req_max_perf = amd_cppc_mhz_to_perf(sc, last'.arg)
            /\ sc'.req_min_perf = sc.lowest_perf
            /\ sc'.req_des_perf = 0
            /\ sc'.req_epp = sc.req_epp
            /\ sc'.epp = sc.epp
            /\ Writes(last'.ev)
                 = << <<"wrmsr", MSR_AMD_CPPC_REQ,
                        Packed(sc'.req_max_perf, sc.lowest_perf, 0, sc.req_epp)>> >>
            /\ msr_req' = Packed(sc'.req_max_perf, sc.lowest_perf, 0, sc.req_epp)
            /\ msr_enable' = msr_enable ]_vars

\* C5 witness: a set_target that replaced a request whose minimum was not
\* the floor of the current capability set and whose EPP was not the default
C5_Witness ==
    /\ Attached
    /\ sc.cppc_enabled
    /\ last.op = "set"
    /\ last.ret = OK
    /\ sc.req_max_perf = 150
    /\ sc.req_min_perf = 40
    /\ sc.req_epp = 255

ReferencePart ==
    /\ sc.lowest_perf = 20
    /\ sc.lowest_nonlinear_perf = 40
    /\ sc.nominal_perf = 100
    /\ sc.highest_perf = 180
    /\ sc.base_freq_mhz = 2000

InTargetRange(f) ==
    /\ (sc.base_freq_mhz * sc.lowest_perf) \div sc.nominal_perf <= f
    /\ f <= (sc.base_freq_mhz * sc.highest_perf) \div sc.nominal_perf

\* C6 as stated: set_target(f) immediately followed by get_current returns
\* perf_to_mhz(mhz_to_perf(f)); for f within [perf_to_mhz(lowest_perf),
\* perf_to_mhz(highest_perf)] the returned value is within base_freq_mhz /
\* nominal_perf of f; on the reference part set_target(3000) reads back 3000.
C6_RoundTripWithinGranularity ==
    [][ (last.op = "set" /\ last.ret = OK /\ last'.op = "get") =>
            /\ last'.ret = OK
            /\ last'.out[1].freq
                 = amd_cppc_perf_to_mhz(sc, amd_cppc_mhz_to_perf(sc, last.arg))
            /\ InTargetRange(last.arg) =>
                 /\ sc.nominal_perf * (last.arg - last'.out[1].freq)
                      <= sc.base_freq_mhz
                 /\ sc.nominal_perf * (last'.out[1].freq - last.arg)
                      <= sc.base_freq_mhz
            /\ (ReferencePart /\ last.arg = 3000) => last'.out[1].freq = 3000
      ]_vars

\* C6 as amended: as above, but for f in range the returned value is never
\* above f and is below f by less than base_freq_mhz / nominal_perf + 1.
C6_RoundTripWithinGranularityPlusOne ==
    [][ (last.op = "set" /\ last.ret = OK /\ last'.op = "get") =>
            /\ last'.ret = OK
            /\ last'.out[1].freq
                 = amd_cppc_perf_to_mhz(sc, amd_cppc_mhz_to_perf(sc, last.arg))
            /\ InTargetRange(last.arg) =>
                 /\ last'.out[1].freq <= last.arg
                 /\ sc.nominal_perf * (last.arg - last'.out[1].freq)
                      < sc.base_freq_mhz + sc.nominal_perf
            /\ (ReferencePart /\ last.arg = 3000) => last'.out[1].freq = 3000
      ]_vars

\* C6 witness: get_current reading back 3000 MHz from the level 150 that
\* set_target stored on the reference part
C6_Witness ==
    /\ ReferencePart
    /\ last.op = "get"
    /\ last.ret = OK
    /\ sc.req_max_perf = 150
    /\ last.out[1].freq = 3000

\* C7: set_preference with a value outside [0,100] fails with EINVAL
\* (OutOfRange) and changes nothing: softc, registers, no register write,
\* enabled or not.
C7_OutOfRangeRejected ==
    [][ (Attached /\ last'.op = "set_epp" /\ last'.ret # EFAULT
         /\ (last'.arg < 0 \/ last'.arg > 100)) =>
            /\ last'.ret = EINVAL
            /\ sc' = sc
            /\ msr_req' = msr_req
            /\ msr_enable' = msr_enable
            /\ NoWrites(last'.ev) ]_vars

\* C7 witness: 101 rejected on an enabled instance whose preference is not
\* the attach default
C7_Witness ==
    /\ Attached
    /\ sc.cppc_enabled
    /\ last.op = "set_epp"
    /\ last.arg = 101
    /\ last.ret = EINVAL
    /\ sc.epp = 100

\* C8: set_preference with e in [0,100] stores e and epp_to_hw(e), leaves
\* req_max_perf, req_min_perf and req_des_perf alone, and makes exactly one
\* write, of the packed request to the request register, if the instance is
\* enabled, and no hardware access at all if it is disabled.
C8_PreferenceEffect ==
    [][ (Attached /\ last'.op = "set_epp" /\ last'.ret # EFAULT
         /\ last'.arg >= 0 /\ last'.arg <= 100) =>
            /\ last'.ret = OK
            /\ sc'.epp = last'.arg
            /\ sc'.req_epp = amd_cppc_epp_to_hw(last'.arg)
            /\ sc' = [sc EXCEPT !.epp = sc'.epp, !.req_epp = sc'.req_epp]
            /\ msr_enable' = msr_enable
            /\ IF sc.cppc_enabled
               THEN /\ Writes(last'.ev)
                         = << <<"wrmsr", MSR_AMD_CPPC_REQ,
                                Packed(sc.req_max_perf, sc.req_min_perf,
                                       sc.req_des_perf, sc'.req_epp)>> >>
                    /\ msr_req' = Packed(sc.req_max_perf, sc.req_min_perf,
                                         sc.req_des_perf, sc'.req_epp)
               ELSE /\ last'.ev = <<>>
                    /\ msr_req' = msr_req ]_vars

\* C8 witness: a preference stored while the instance is disabled
C8_Witness ==
    /\ Attached
    /\ ~sc.cppc_enabled
    /\ last.op = "set_epp"
    /\ last.ret = OK
    /\ last.arg = 100
    /\ sc.req_epp = 255
    /\ last.ev = <<>>
    /\ msr_req = U64Zero

StrictlyDescending(sets) ==
    \A i \in 1..(Len(sets) - 1) : sets[i].freq > sets[i + 1].freq

\* C9: enumerate(30) on the reference part returns strictly descending MHz
\* values, at most 30 of them, the last one perf_to_mhz(20) = 400.
C9_Enumerate30EndsAtFloor ==
    (ReferencePart /\ last.op = "settings" /\ last.arg = 30 /\ last.ret = OK) =>
        /\ Len(last.out) <= 30
        /\ Len(last.out) > 0
        /\ StrictlyDescending(last.out)
        /\ last.out[Len(last.out)].freq = 400

\* the stride of the walk and the number of levels from highest_perf down
\* to strictly above lowest_perf
EnumStep ==
    IF (sc.highest_perf - sc.lowest_perf) \div 30 < 1 THEN 1
    ELSE (sc.highest_perf - sc.lowest_perf) \div 30

EnumLevels == (sc.highest_perf - sc.lowest_perf + EnumStep - 1) \div EnumStep

EnumLevelMhz(i) ==
    (sc.base_freq_mhz * (sc.highest_perf - (i - 1) * EnumStep)) \div sc.nominal_perf

EnumFloorMhz == (sc.base_freq_mhz * sc.lowest_perf) \div sc.nominal_perf

Min2(a, b) == IF a < b THEN a ELSE b

\* C10: on an enabled instance enumerate(max_count) returns n entries with
\* n <= max_count and n <= 64; none when highest_perf = lowest_perf; and
\* when the walk over the levels ends with budget left, the levels are
\* followed by exactly one more entry, perf_to_mhz(lowest_perf); when the
\* budget ends the walk, only levels are returned.
C10_EnumerateBounded ==
    last.op = "settings" =>
        /\ last.ret = OK
        /\ Len(last.out) <= last.arg
        /\ Len(last.out) <= 64
        /\ sc.highest_perf = sc.lowest_perf => last.out = <<>>
        /\ \A i \in 1..Min2(Len(last.out), EnumLevels) :
               last.out[i].freq = EnumLevelMhz(i)
        /\ (sc.highest_perf > sc.lowest_perf
            /\ EnumLevels < last.arg /\ EnumLevels < 64) =>
               /\ Len(last.out) = EnumLevels + 1
               /\ last.out[Len(last.out)].freq = EnumFloorMhz
        /\ (sc.highest_perf > sc.lowest_perf
            /\ ~(EnumLevels < last.arg /\ EnumLevels < 64)) =>
               Len(last.out) = Min2(last.arg, 64)

\* C10 witness: a walk whose stride steps over lowest_perf, finished with
\* budget to spare and followed by the floor entry
C10_Witness ==
    /\ last.op = "settings"
    /\ last.ret = OK
    /\ (sc.highest_perf - sc.lowest_perf) % EnumStep # 0
    /\ EnumStep > 1
    /\ last.arg > EnumLevels + 1
    /\ Len(last.out) = EnumLevels + 1
    /\ last.out[Len(last.out)].freq = EnumFloorMhz

NonIncreasing(sets) ==
    \A i \in 1..(Len(sets) - 1) : sets[i].freq >= sets[i + 1].freq

\* C11 as stated: for every validated capability set, every base_freq_mhz
\* >= 1 and every max_count, the entries enumerate returns are strictly
\* descending by MHz (no two entries, the floor entry included, carry the
\* same value) and every entry carries the latency hint 1.
C11_EnumerateStrictlyDescending ==
    (last.op = "settings" /\ last.ret = OK) =>
        /\ StrictlyDescending(last.out)
        /\ \A i \in 1..Len(last.out) : last.out[i].lat = 1

\* C11 as amended: the entries are descending by MHz (never increasing) and
\* every entry carries the latency hint 1; no two entries carry the same
\* value when base_freq_mhz >= nominal_perf.
C11_EnumerateDescending ==
    (last.op = "settings" /\ last.ret = OK) =>
        /\ NonIncreasing(last.out)
        /\ \A i \in 1..Len(last.out) : last.out[i].lat = 1
        /\ sc.base_freq_mhz >= sc.nominal_perf => StrictlyDescending(last.out)

\* C11 witness: the full list of a part whose base frequency in MHz equals
\* its nominal level, walked with stride 1 and closed by the floor entry
C11_Witness ==
    /\ last.op = "settings"
    /\ last.ret = OK
    /\ sc.base_freq_mhz = sc.nominal_perf
    /\ EnumStep = 1
    /\ Len(last.out) = EnumLevels + 1
    /\ Len(last.out) > 2
    /\ last.out[Len(last.out)].freq = EnumFloorMhz
    /\ last.out[Len(last.out)].freq = last.out[Len(last.out) - 1].freq - 1

\* C12: mhz_to_perf clamps for every value of its int argument: below the
\* floor perf_to_mhz(lowest_perf), zero and negative values included, the
\* result is lowest_perf; above the ceiling perf_to_mhz(highest_perf) it is
\* highest_perf; and it always lies in [lowest_perf, highest_perf].
C12_MhzToPerfClamps ==
    (last.op = "set" /\ last.ret = OK) =>
        /\ last.arg < amd_cppc_perf_to_mhz(sc, sc.lowest_perf) =>
              sc.req_max_perf = sc.lowest_perf
        /\ last.arg > amd_cppc_perf_to_mhz(sc, sc.highest_perf) =>
              sc.req_max_perf = sc.highest_perf
        /\ sc.lowest_perf <= sc.req_max_perf
        /\ sc.req_max_perf <= sc.highest_perf

\* C13: for a fixed capability set and base frequency mhz_to_perf is
\* monotonic: of two set_target calls in a row, the second with a frequency
\* no lower than the first, the second never stores a lower req_max_perf.
C13_MhzToPerfMonotonic ==
    [][ (last.op = "set" /\ last.ret = OK /\ last'.op = "set"
         /\ last.arg <= last'.arg) =>
            sc.req_max_perf <= sc'.req_max_perf ]_vars

\* the reference: min(max(epp, 0), 100) * 255 / 100, truncating
EppReference(epp) ==
    ((IF epp < 0 THEN 0 ELSE IF epp > 100 THEN 100 ELSE epp) * 255) \div 100

\* C14: epp_to_hw equals the reference min(max(epp,0),100) * 255 / 100 for
\* every int: epp_to_hw(0) = 0, epp_to_hw(100) = 255, the result fits in
\* 0..255, inputs below 0 give the result of 0 and inputs above 100 the
\* result of 100, and over [0,100] a larger input never gives a smaller
\* result.
C14_EppToHwReference ==
    [][ last'.op = "epp_to_hw" =>
            /\ last'.out[1] = EppReference(last'.arg)
            /\ last'.out[1] >= 0
            /\ last'.out[1] <= 255
            /\ last'.arg <= 0 => last'.out[1] = 0
            /\ last'.arg >= 100 => last'.out[1] = 255
            /\ (last.op = "epp_to_hw" /\ 0 <= last.arg /\ last.arg <= last'.arg
                /\ last'.arg <= 100) => last.out[1] <= last'.out[1] ]_vars

\* C14 witness: an input above the range converted as 100 is
C14_Witness ==
    /\ last.op = "epp_to_hw"
    /\ last.arg = 101
    /\ last.out = <<255>>

\* the registers after each of the writes ws, in order, starting from en and
\* req: at no point is the enable bit clear with a non-zero request
RECURSIVE NoStaleRequest(_, _, _)
NoStaleRequest(ws, en, req) ==
    /\ EnableBitOf(en) = 1 \/ req = U64Zero
    /\ \/ ws = <<>>
       \/ NoStaleRequest(Tail(ws),
                         IF Head(ws)[2] = MSR_AMD_CPPC_ENABLE THEN Head(ws)[3] ELSE en,
                         IF Head(ws)[2] = MSR_AMD_CPPC_REQ THEN Head(ws)[3] ELSE req)

\* C15: disable (suspend, detach) on an enabled instance writes zero to the
\* request register, then reads the enable register and writes it back with
\* the enable bit cleared, so that at no point the enable bit is clear while
\* the request register holds a non-zero request, and leaves the instance
\* disabled; on a disabled instance it reads and writes no register and
\* changes nothing.
C15_DisableZeroesRequestFirst ==
    [][ last'.op \in {"suspend", "detach"} =>
            IF sc.cppc_enabled
            THEN /\ last'.ev
                      = << <<"bind", sc.cpu_id>>,
                           <<"wrmsr", MSR_AMD_CPPC_REQ, U64Zero>>, <<"unbind">>,
                           <<"bind", sc.cpu_id>>,
                           <<"rdmsr", MSR_AMD_CPPC_ENABLE>>, <<"unbind">>,
                           <<"bind", sc.cpu_id>>,
                           <<"wrmsr", MSR_AMD_CPPC_ENABLE,
                             ClearEnableBit(msr_enable)>>, <<"unbind">> >>
                 /\ NoStaleRequest(Writes(last'.ev), msr_enable, msr_req)
                 /\ ~sc'.cppc_enabled
                 /\ EnableBitOf(msr_enable') = 0
                 /\ msr_req' = U64Zero
            ELSE /\ last'.ev = <<>>
                 /\ sc' = sc
                 /\ msr_enable' = msr_enable
                 /\ msr_req' = msr_req ]_vars

\* C15 witness: a suspend that found the instance enabled with a request
\* whose maximum set_target had lowered, and left both registers clear
C15_Witness ==
    /\ last.op = "suspend"
    /\ Len(Writes(last.ev)) = 2
    /\ pre_req # NoRequest
    /\ pre_req.max = 150
    /\ ~sc.cppc_enabled
    /\ EnableBitOf(msr_enable) = 0
    /\ msr_req = U64Zero

\* C16: enable (in attach and resume, once the capabilities passed
\* validation) reads the enable register; if the bit is set it writes
\* nothing to that register and succeeds; otherwise it writes the value
\* with the bit set and reads the register again, and if the bit did not
\* latch it fails with ENXIO (EnableFailed), the instance is not enabled and
\* the request register is not written; the instance is enabled only with
\* the hardware enable bit set.
C16_EnableVerifiesLatch ==
    [][ (last'.op \in {"attach", "resume"} /\ CapsError(sc') = OK) =>
            /\ SubSeq(Accesses(last'.ev), 1, 2)
                    = << <<"rdmsr", MSR_AMD_CPPC_CAP1>>,
                         <<"rdmsr", MSR_AMD_CPPC_ENABLE>> >>
            /\ IF EnableBitOf(msr_enable) = 1
               THEN /\ last'.ret = OK
                    /\ sc'.cppc_enabled
                    /\ msr_enable' = msr_enable
                    /\ Writes(last'.ev)
                         = << <<"wrmsr", MSR_AMD_CPPC_REQ, PackedRequest(sc')>> >>
               ELSE /\ SubSeq(Accesses(last'.ev), 3, 4)
                         = << <<"wrmsr", MSR_AMD_CPPC_ENABLE,
                                SetEnableBit(msr_enable)>>,
                              <<"rdmsr", MSR_AMD_CPPC_ENABLE>> >>
                    /\ IF EnableBitOf(msr_enable') = 0
                       THEN /\ last'.ret = ENXIO
                            /\ ~sc'.cppc_enabled
                            /\ Len(Accesses(last'.ev)) = 4
                            /\ msr_req' = msr_req
                       ELSE /\ last'.ret = OK
                            /\ sc'.cppc_enabled
                            /\ Len(Accesses(last'.ev)) = 5
            /\ sc'.cppc_enabled => EnableBitOf(msr_enable') = 1 ]_vars

\* C16 witness: a resume whose enable write the hardware did not latch
C16_Witness ==
    /\ last.op = "resume"
    /\ last.ret = ENXIO
    /\ CapsError(sc) = OK
    /\ ~sc.cppc_enabled
    /\ EnableBitOf(msr_enable) = 0
    /\ Len(Writes(last.ev)) = 1
    /\ pre_req # NoRequest

\* C17: attach, resume, set_target and set_preference each update the
\* request register by at most one write, exactly one when they succeed on
\* an enabled instance; the value written is max + 2^8 * min + 2^16 * des +
\* 2^24 * epp of the stored request, all higher bits zero, and the register
\* afterwards holds either that value or what it held before.
C17_SinglePackedWrite ==
    [][ last'.op \in {"attach", "resume", "set", "set_epp"} =>
            /\ ReqWrites(last'.ev) \in
                   { <<>>,
                     << <<"wrmsr", MSR_AMD_CPPC_REQ,
                          << sc'.req_max_perf + 256 * sc'.req_min_perf,
                             sc'.req_des_perf + 256 * sc'.req_epp, 0, 0 >> >> >> }
            /\ (last'.ret = OK /\ sc'.cppc_enabled) => Len(ReqWrites(last'.ev)) = 1
            /\ msr_req' = IF ReqWrites(last'.ev) = <<>> THEN msr_req
                          ELSE ReqWrites(last'.ev)[1][3] ]_vars

\* C17 witness: a set_preference on an enabled instance whose four fields
\* differ, written as one value
C17_Witness ==
    /\ last.op = "set_epp"
    /\ last.ret = OK
    /\ sc.req_max_perf = 150
    /\ sc.req_min_perf = 20
    /\ sc.req_epp = 255
    /\ ReqWrites(last.ev) = << <<"wrmsr", MSR_AMD_CPPC_REQ, msr_req>> >>
    /\ msr_req = << 150 + 256 * 20, 256 * 255, 0, 0 >>

\* the capability set fails validation: a zero in highest, nominal or
\* lowest, or lowest above nominal, or nominal above highest
FailsValidation(s) ==
    \/ s.highest_perf = 0
    \/ s.nominal_perf = 0
    \/ s.lowest_perf = 0
    \/ s.lowest_perf > s.nominal_perf
    \/ s.nominal_perf > s.highest_perf

\* C18: an attach or resume whose capability value fails validation, or
\* whose enable bit the hardware does not latch, returns an error, leaves
\* the instance not enabled and writes nothing to the request register;
\* and an enabled instance always holds a capability set that passes
\* validation.
C18_FailedActivationAborts ==
    [][ /\ (last'.op \in {"attach", "resume"}
            /\ (FailsValidation(sc') \/ EnableBitOf(msr_enable') = 0)) =>
               /\ last'.ret # OK
               /\ ~sc'.cppc_enabled
               /\ ReqWrites(last'.ev) = <<>>
               /\ msr_req' = msr_req
        /\ sc'.cppc_enabled =>
               /\ sc'.nominal_perf # 0
               /\ sc'.lowest_perf <= sc'.nominal_perf
               /\ sc'.nominal_perf <= sc'.highest_perf ]_vars

\* C18 witness: a resume that read a capability value with a zero nominal
\* level after the instance had been in use
C18_Witness ==
    /\ last.op = "resume"
    /\ last.ret = ENXIO
    /\ sc.nominal_perf = 0
    /\ sc.highest_perf = 180
    /\ ~sc.cppc_enabled
    /\ pre_req # NoRequest
    /\ msr_req = U64Zero
    /\ Accesses(last.ev) = << <<"rdmsr", MSR_AMD_CPPC_CAP1>> >>

\* the thread is bound to no core
NoCpu == 0 - 1

\* the events ev, run from a thread bound to core bound: every register
\* access happens bound to cpu, and the thread ends bound to no core
RECURSIVE BoundThroughout(_, _, _)
BoundThroughout(ev, cpu, bound) ==
    IF ev = <<>> THEN bound = NoCpu
    ELSE CASE Head(ev)[1] = "bind" -> BoundThroughout(Tail(ev), cpu, Head(ev)[2])
           [] Head(ev)[1] = "unbind" -> BoundThroughout(Tail(ev), cpu, NoCpu)
           [] OTHER -> bound = cpu /\ BoundThroughout(Tail(ev), cpu, bound)

\* C19: every register read and write of every operation executes while
\* the thread is bound to the instance's core cpu_id, and every operation
\* returns with the binding released, on the failure paths too.
C19_AccessesBoundToCore ==
    BoundThroughout(last.ev, sc.cpu_id, NoCpu)

\* C19 witness: an attach that failed because the enable bit did not latch,
\* after four register accesses
C19_Witness ==
    /\ last.op = "attach"
    /\ last.ret = ENXIO
    /\ sc.cpu_id = 1
    /\ Len(Accesses(last.ev)) = 4
    /\ Len(last.ev) = 12
    /\ last.ev[Len(last.ev)] = <<"unbind">>

\* C20: between operations, an enabled instance has the hardware enable bit
\* set and the request register equal to the packing of the stored
\* req_max_perf, req_min_perf, req_des_perf and req_epp; an instance that
\* suspend or detach disabled has the request register zero and the enable
\* bit clear until it is enabled again, a set_preference in between
\* notwithstanding.
C20_RegistersMatchStoredRequest ==
    /\ sc.cppc_enabled =>
          /\ EnableBitOf(msr_enable) = 1
          /\ msr_req = PackedRequest(sc)
    /\ (~sc.cppc_enabled /\ phase \in {"attached", "detached"}) =>
          /\ EnableBitOf(msr_enable) = 0
          /\ msr_req = U64Zero

\* C20 witness: a preference accepted while suspended, the stored request
\* no longer the attach default and the registers still clear
C20_Witness ==
    /\ last.op = "set_epp"
    /\ last.ret = OK
    /\ suspended
    /\ ~sc.cppc_enabled
    /\ sc.epp = 0
    /\ sc.req_max_perf = 150
    /\ PackedRequest(sc) # U64Zero
    /\ msr_req = U64Zero
    /\ EnableBitOf(msr_enable) = 0

\* C21: in every state, before attach, after attach and after any sequence
\* of set_preference (accepted or rejected), set_target, suspend, resume and
\* detach, the stored hardware EPP field is the conversion of the stored
\* preference, req_epp = epp_to_hw(epp), the preference lies in [0,100],
\* and right after a successful attach it is 50.
C21_StoredEppConsistent ==
    /\ sc.req_epp = EppReference(sc.epp)
    /\ sc.req_epp = amd_cppc_epp_to_hw(sc.epp)
    /\ sc.epp >= 0
    /\ sc.epp <= 100
    /\ (last.op = "attach" /\ last.ret = OK) => sc.epp = 50

\* C21 witness: a set_preference rejected while suspended, after an earlier
\* one had moved the preference off the attach default
C21_Witness ==
    /\ last.op = "set_epp"
    /\ last.arg = 0 - 1
    /\ last.ret = EINVAL
    /\ suspended
    /\ sc.epp = 100
    /\ sc.req_epp = 255

\* C22: when set_target and set_preference run concurrently on the same
\* enabled instance, interleaved at the single stores, the build of the
\* register value and the register write, then once both have returned
\* successfully the request register equals the packing of the stored
\* request, which carries the new req_max_perf and the new req_epp.
C22_ConcurrentUpdatesBothLand ==
    (thr.set.pc = "done" /\ thr.set.ret = OK
     /\ thr.epp.pc = "done" /\ thr.epp.ret = OK) =>
        /\ sc.req_max_perf = thr.set.target_perf
        /\ sc.req_epp = EppReference(thr.epp.epp)
        /\ msr_req = PackedRequest(sc)

====
